---- MODULE Spec2Model ----
(***************************************************************************)
(* Model of the binding core of OpenRCT2-RideVehicleEditor:                *)
(*   - Binder.apply / Binder.applyAll / applyBinding  (ui/framework binder)*)
(*   - Component.bind / active / refresh / getWidget  (src/ui/component.ts)*)
(* Observable and BindingContext are imported by the binder; they are      *)
(* modelled from their documented contract (get/set/subscribe, setField).  *)
(***************************************************************************)
EXTENDS Integers, Sequences, FiniteSets, TLC

\* ------------------------------------------------------------------ bounds
MaxApplies == 2      \* Binder.apply / applyAll invocations per behaviour
MaxListLen == 2      \* length of the viewmodel list handed to applyAll

\* ---------------------------------------------------------------- universe
VMs    == {"vm1", "vm2"}
Keys   == {"k1", "k2"}
Fields == {"a", "b"}
Vals   == {0, 1}
None   == "none"
NoObs  == <<"none", "none">>

\* An observable is identified by the viewmodel property that holds it.
Props  == VMs \X Keys

\* What a view field (or a setField argument) holds: a plain value, or the
\* closure (v) => observable.set(v) of one observable, or nothing yet.
Unset  == [kind |-> "unset", v |-> 0, obs |-> NoObs]
Val(x) == [kind |-> "val",   v |-> x, obs |-> NoObs]
Fn(o)  == [kind |-> "fn",    v |-> 0, obs |-> o]

\* The three descriptor shapes of a binding specification entry.
ToTarget(k, f)  == [key |-> k, shape |-> "ToTarget", target |-> f,    bind |-> None, update |-> None]
ToSource(k, u)  == [key |-> k, shape |-> "ToSource", target |-> None, bind |-> None, update |-> u]
TwoWay(k, f, u) == [key |-> k, shape |-> "TwoWay",   target |-> None, bind |-> f,    update |-> u]

Entries(k) == {ToTarget(k, f) : f \in Fields}
              \cup {ToSource(k, u) : u \in Fields}
              \cup {TwoWay(k, f, u) : f \in Fields, u \in Fields}

\* A binding specification: an object with distinct keys, enumerated by
\* for..in in insertion order, hence a sequence of entries with distinct keys.
BindingSpecs ==
    {<<>>}
    \cup {<<e>> : e \in UNION {Entries(k) : k \in Keys}}
    \cup {<<e1, e2>> : e1 \in Entries("k1"), e2 \in Entries("k2")}
    \cup {<<e2, e1>> : e1 \in Entries("k1"), e2 \in Entries("k2")}

VARIABLES
    kind,       \* kind[vm][k]: what viewmodel vm holds under property k
    bindings,   \* the binding specification the host declared
    value,      \* value[o]: the value stored in observable o
    subs,       \* subs[o]: the subscribers of o, in subscription order;
                \*          each is the closure value => context.setField(F, value)
    fields,     \* fields[F]: what the view field F holds
    applied,    \* applied[vm]: how often the bindings were applied to vm so far
    op,         \* the operation that produced this state
    calls,      \* context.setField calls made by that operation, in order
    setCalls,   \* Observable.set calls made by that operation, in order
    notified,   \* positions (in the list of the observable that was set) of the
                \* subscribers that operation invoked, in order of invocation
    warnings    \* keys Log.warning was called for by that operation, in order

bvars == <<kind, bindings, value, subs, fields, applied, op, calls, setCalls, notified, warnings>>

\* Component (src/ui/component.ts) and the windows it can be bound to.
Hosts    == {"w1", "w2"}
Names    == {"n1", "n2"}
NoWindow == "null"
NoError  == "none"

VARIABLES
    description, \* this._description.name, fixed at construction
    window,      \* this._window: a host, or NoWindow
    previous,    \* history: the value of this._window before the last bind
    hasWidget,   \* hasWidget[h]: the names of the widgets window h has
    isDisabled,  \* isDisabled[<<h, n>>]: the isDisabled flag of widget n of h
    cop,         \* the Component operation that produced this state
    error,       \* the error that operation threw, or NoError
    refreshed    \* the widgets refreshWidget was called with by that operation

cvars == <<description, window, previous, hasWidget, isDisabled, cop, error, refreshed>>

vars == <<kind, bindings, value, subs, fields, applied, op, calls, setCalls, notified, warnings,
          description, window, previous, hasWidget, isDisabled, cop, error, refreshed>>

\* ------------------------------------------------------------- Observable
\* The part of the state the binder's calls read and write, threaded through
\* the operators below in the order the code makes the calls.
Start == [value |-> value, subs |-> subs, fields |-> fields,
          calls |-> <<>>, setCalls |-> <<>>, notified |-> <<>>, warnings |-> <<>>]

\* context.setField(name, arg): writes the one slot of the view named `name`.
setField(st, name, arg) ==
    [st EXCEPT !.fields[name] = arg,
               !.calls = Append(@, [field |-> name, arg |-> arg])]

\* observable.get()
get(st, o) == st.value[o]

\* observable.subscribe(value => context.setField(toTarget, value))
subscribe(st, o, toTarget) == [st EXCEPT !.subs[o] = Append(@, toTarget)]

\* The notification loop of observable.set: every subscriber, in order.
RECURSIVE notify(_, _, _, _)
notify(st, o, v, i) ==
    IF i > Len(st.subs[o]) THEN st
    ELSE notify(setField([st EXCEPT !.notified = Append(@, i)], st.subs[o][i], Val(v)),
                o, v, i + 1)

\* observable.set(v): store unconditionally, then notify.
set(st, o, v) ==
    notify([st EXCEPT !.value[o] = v,
                      !.setCalls = Append(@, [obs |-> o, v |-> v])], o, v, 1)

\* ------------------------------------------------------------------ Binder
\* Log.warning(...) for a key
warning(st, k) == [st EXCEPT !.warnings = Append(@, k)]

\* applyBinding that subscribes a to-target binding without the initial push.
applyBinding_noInitialPush(st, vm, b) ==
    IF kind[vm][b.key] # "obs" THEN [st |-> st, ok |-> FALSE]
    ELSE LET observable == <<vm, b.key>> IN
         IF b.shape = "ToTarget"
         THEN [st |-> subscribe(st, observable, b.target), ok |-> TRUE]
         ELSE LET s1 == setField(st, b.update, Fn(observable)) IN
              IF b.shape = "TwoWay"
              THEN LET s2 == setField(s1, b.bind, Val(get(s1, observable)))
                   IN  [st |-> subscribe(s2, observable, b.bind), ok |-> TRUE]
              ELSE [st |-> s1, ok |-> TRUE]

\* applyBinding that also subscribes the update field of a to-source binding.
applyBinding_sourceSubscribes(st, vm, b) ==
    IF kind[vm][b.key] # "obs" THEN [st |-> st, ok |-> FALSE]
    ELSE LET observable == <<vm, b.key>> IN
         IF b.shape = "ToTarget"
         THEN LET s1 == setField(st, b.target, Val(get(st, observable)))
              IN  [st |-> subscribe(s1, observable, b.target), ok |-> TRUE]
         ELSE LET s1 == setField(st, b.update, Fn(observable)) IN
              IF b.shape = "TwoWay"
              THEN LET s2 == setField(s1, b.bind, Val(get(s1, observable)))
                   IN  [st |-> subscribe(s2, observable, b.bind), ok |-> TRUE]
              ELSE [st |-> subscribe(s1, observable, b.update), ok |-> TRUE]

\* applyBinding that mixes up the two fields of a two-way binding.
applyBinding_twoWaySwapped(st, vm, b) ==
    IF kind[vm][b.key] # "obs" THEN [st |-> st, ok |-> FALSE]
    ELSE LET observable == <<vm, b.key>> IN
         IF b.shape = "ToTarget"
         THEN LET s1 == setField(st, b.target, Val(get(st, observable)))
              IN  [st |-> subscribe(s1, observable, b.target), ok |-> TRUE]
         ELSE IF b.shape = "TwoWay"
              THEN LET s1 == setField(st, b.bind, Fn(observable))
                       s2 == setField(s1, b.update, Val(get(s1, observable)))
                   IN  [st |-> subscribe(s2, observable, b.update), ok |-> TRUE]
              ELSE [st |-> setField(st, b.update, Fn(observable)), ok |-> TRUE]

\* applyBinding that forgets to subscribe the bind field of a two-way binding.
applyBinding_twoWayNoSubscribe(st, vm, b) ==
    IF kind[vm][b.key] # "obs" THEN [st |-> st, ok |-> FALSE]
    ELSE LET observable == <<vm, b.key>> IN
         IF b.shape = "ToTarget"
         THEN LET s1 == setField(st, b.target, Val(get(st, observable)))
              IN  [st |-> subscribe(s1, observable, b.target), ok |-> TRUE]
         ELSE LET s1 == setField(st, b.update, Fn(observable)) IN
              IF b.shape = "TwoWay"
              THEN [st |-> setField(s1, b.bind, Val(get(s1, observable))), ok |-> TRUE]
              ELSE [st |-> s1, ok |-> TRUE]

\* applyBinding that pushes a to-target binding once and never subscribes it.
applyBinding_toTargetNoSubscribe(st, vm, b) ==
    IF kind[vm][b.key] # "obs" THEN [st |-> st, ok |-> FALSE]
    ELSE LET observable == <<vm, b.key>> IN
         IF b.shape = "ToTarget"
         THEN [st |-> setField(st, b.target, Val(get(st, observable))), ok |-> TRUE]
         ELSE LET s1 == setField(st, b.update, Fn(observable)) IN
              IF b.shape = "TwoWay"
              THEN LET s2 == setField(s1, b.bind, Val(get(s1, observable)))
                   IN  [st |-> subscribe(s2, observable, b.bind), ok |-> TRUE]
              ELSE [st |-> s1, ok |-> TRUE]

\* applyBinding whose two-way subscriber pushes to the update field.
applyBinding_twoWaySubscribesUpdate(st, vm, b) ==
    IF kind[vm][b.key] # "obs" THEN [st |-> st, ok |-> FALSE]
    ELSE LET observable == <<vm, b.key>> IN
         IF b.shape = "ToTarget"
         THEN LET s1 == setField(st, b.target, Val(get(st, observable)))
              IN  [st |-> subscribe(s1, observable, b.target), ok |-> TRUE]
         ELSE LET s1 == setField(st, b.update, Fn(observable)) IN
              IF b.shape = "TwoWay"
              THEN LET s2 == setField(s1, b.bind, Val(get(s1, observable)))
                   IN  [st |-> subscribe(s2, observable, b.update), ok |-> TRUE]
              ELSE [st |-> s1, ok |-> TRUE]

\* applyBinding that does not subscribe an observable that has a subscriber.
applyBinding_subscribesOnce(st, vm, b) ==
    IF kind[vm][b.key] # "obs" THEN [st |-> st, ok |-> FALSE]
    ELSE LET observable == <<vm, b.key>>
             sub(s, f) == IF s.subs[observable] = <<>> THEN subscribe(s, observable, f) ELSE s
         IN
         IF b.shape = "ToTarget"
         THEN [st |-> sub(setField(st, b.target, Val(get(st, observable))), b.target), ok |-> TRUE]
         ELSE LET s1 == setField(st, b.update, Fn(observable)) IN
              IF b.shape = "TwoWay"
              THEN [st |-> sub(setField(s1, b.bind, Val(get(s1, observable))), b.bind), ok |-> TRUE]
              ELSE [st |-> s1, ok |-> TRUE]

\* applyBinding(context, viewmodel, bindings, bindSource)
applyBinding(st, vm, b) ==
    IF kind[vm][b.key] = "absent" THEN [st |-> st, ok |-> FALSE]
    ELSE IF kind[vm][b.key] # "obs" THEN [st |-> st, ok |-> FALSE]
    ELSE LET observable == <<vm, b.key>> IN
         IF b.shape = "ToTarget"
         THEN LET s1 == setField(st, b.target, Val(get(st, observable)))
              IN  [st |-> subscribe(s1, observable, b.target), ok |-> TRUE]
         ELSE LET s1 == setField(st, b.update, Fn(observable)) IN
              IF b.shape = "TwoWay"
              THEN LET s2 == setField(s1, b.bind, Val(get(s1, observable)))
                   IN  [st |-> subscribe(s2, observable, b.bind), ok |-> TRUE]
              ELSE [st |-> s1, ok |-> TRUE]

\* Binder.apply whose loop gives up at the first key that does not resolve.
RECURSIVE applyFrom_stopsAtFailure(_, _, _, _)
applyFrom_stopsAtFailure(st, vm, bs, i) ==
    IF i > Len(bs) THEN st
    ELSE LET r == applyBinding(st, vm, bs[i])
         IN  IF r.ok THEN applyFrom_stopsAtFailure(r.st, vm, bs, i + 1)
             ELSE warning(r.st, bs[i].key)

\* Binder.apply whose loop leaves out the last key of the specification.
RECURSIVE applyFrom_skipsLastKey(_, _, _, _)
applyFrom_skipsLastKey(st, vm, bs, i) ==
    IF i >= Len(bs) THEN st
    ELSE LET r == applyBinding(st, vm, bs[i])
         IN  applyFrom_skipsLastKey(IF r.ok THEN r.st ELSE warning(r.st, bs[i].key),
                                    vm, bs, i + 1)

\* Binder.apply: the for..in loop over the keys of the specification.
RECURSIVE applyFrom(_, _, _, _)
applyFrom(st, vm, bs, i) ==
    IF i > Len(bs) THEN st
    ELSE LET r == applyBinding(st, vm, bs[i])
         IN  applyFrom(IF r.ok THEN r.st ELSE warning(r.st, bs[i].key), vm, bs, i + 1)

apply(st, vm, bs) == applyFrom(st, vm, bs, 1)

\* Binder.applyAll whose success flag is the last viewmodel's result only.
RECURSIVE applyVms_lastDecides(_, _, _, _, _)
applyVms_lastDecides(st, vms, b, j, success) ==
    IF j > Len(vms) THEN [st |-> st, ok |-> success]
    ELSE LET r == applyBinding(st, vms[j], b)
         IN  applyVms_lastDecides(r.st, vms, b, j + 1, r.ok)

\* Binder.applyAll that walks the list of viewmodels from its end.
RECURSIVE applyVms_backwards(_, _, _, _, _)
applyVms_backwards(st, vms, b, j, success) ==
    IF j > Len(vms) THEN [st |-> st, ok |-> success]
    ELSE LET r == applyBinding(st, vms[Len(vms) + 1 - j], b)
         IN  applyVms_backwards(r.st, vms, b, j + 1, r.ok \/ success)

\* Binder.applyAll: the inner loop over the viewmodels for one key.
RECURSIVE applyVms(_, _, _, _, _)
applyVms(st, vms, b, j, success) ==
    IF j > Len(vms) THEN [st |-> st, ok |-> success]
    ELSE LET r == applyBinding(st, vms[j], b)
         IN  applyVms(r.st, vms, b, j + 1, r.ok \/ success)

\* Binder.applyAll: the outer loop over the keys.
RECURSIVE applyAllFrom(_, _, _, _)
applyAllFrom(st, vms, bs, i) ==
    IF i > Len(bs) THEN st
    ELSE LET r == applyVms(st, vms, bs[i], 1, FALSE)
         IN  applyAllFrom(IF r.ok THEN r.st ELSE warning(r.st, bs[i].key), vms, bs, i + 1)

applyAll(st, vms, bs) == applyAllFrom(st, vms, bs, 1)

\* ------------------------------------------------------------------ state
VmLists == UNION {[1..n -> VMs] : n \in 0..MaxListLen}

Occurrences(vms, vm) == Cardinality({j \in 1..Len(vms) : vms[j] = vm})

TotalApplied(a) == a["vm1"] + a["vm2"]

Op(name, vms, o, f, v) == [name |-> name, vms |-> vms, obs |-> o, field |-> f, v |-> v]

\* The host has built two viewmodels, a binding specification and a context,
\* and has bound nothing yet.  vm2 holds an Observable under every key; vm1
\* holds one under k1 and anything (an Observable, another value, nothing)
\* under k2.  Every Observable was constructed with the value 0.
BinderInit ==
    /\ kind \in [VMs -> [Keys -> {"obs", "plain", "absent"}]]
    /\ kind["vm1"]["k1"] = "obs"
    /\ kind["vm2"] = [k \in Keys |-> "obs"]
    /\ bindings \in BindingSpecs
    /\ value = [o \in Props |-> 0]
    /\ subs = [o \in Props |-> <<>>]
    /\ fields = [f \in Fields |-> Unset]
    /\ applied = [vm \in VMs |-> 0]
    /\ op = Op("init", <<>>, NoObs, None, 0)
    /\ calls = <<>>
    /\ setCalls = <<>>
    /\ notified = <<>>
    /\ warnings = <<>>

Commit(st) ==
    /\ value' = st.value
    /\ subs' = st.subs
    /\ fields' = st.fields
    /\ calls' = st.calls
    /\ setCalls' = st.setCalls
    /\ notified' = st.notified
    /\ warnings' = st.warnings
    /\ UNCHANGED <<kind, bindings>>

\* The host calls Binder.apply(context, vm, bindings).
Apply(vm) ==
    /\ TotalApplied(applied) < MaxApplies
    /\ Commit(apply(Start, vm, bindings))
    /\ applied' = [applied EXCEPT ![vm] = @ + 1]
    /\ op' = Op("apply", <<vm>>, NoObs, None, 0)

\* The host calls Binder.applyAll(context, vms, bindings).
ApplyAll(vms) ==
    /\ TotalApplied(applied) + Len(vms) <= MaxApplies
    /\ Commit(applyAll(Start, vms, bindings))
    /\ applied' = [vm \in VMs |-> applied[vm] + Occurrences(vms, vm)]
    /\ op' = Op("applyAll", vms, NoObs, None, 0)

\* Application logic calls observable.set(v) on a viewmodel's observable.
Set(o, v) ==
    /\ kind[o[1]][o[2]] = "obs"
    /\ Commit(set(Start, o, v))
    /\ op' = Op("set", <<>>, o, None, v)
    /\ UNCHANGED applied

\* The view invokes the handler held in field f with a new value v
\* (the closure (v) => observable.set(v) installed by applyBinding).
Invoke(f, v) ==
    /\ fields[f].kind = "fn"
    /\ Commit(set(Start, fields[f].obs, v))
    /\ op' = Op("invoke", <<>>, fields[f].obs, f, v)
    /\ UNCHANGED applied

\* --------------------------------------------------------------- Component
\* The component's view of the world, threaded through its methods.
CStart == [window |-> window, isDisabled |-> isDisabled,
           error |-> NoError, refreshed |-> <<>>]

\* Window.findWidget(name): the widget of that name, or a failure.
findWidget(h, n) ==
    IF n \in hasWidget[h] THEN [ok |-> TRUE,  widget |-> <<h, n>>, error |-> NoError]
    ELSE                       [ok |-> FALSE, widget |-> <<h, n>>, error |-> "no such widget"]

\* Component.getWidget()
getWidget(c) ==
    IF c.window = NoWindow
    THEN [ok |-> FALSE, widget |-> <<NoWindow, description>>, error |-> "The window is gone."]
    ELSE findWidget(c.window, description)

\* The abstract hook refreshWidget(widget): the calls are recorded.
refreshWidget(c, widget) == [c EXCEPT !.refreshed = Append(@, widget)]

\* Component.refresh that forgets the window when the widget is not found.
refresh_dropsWindowOnFailure(c) ==
    LET w == getWidget(c) IN
    IF ~w.ok THEN [c EXCEPT !.error = w.error, !.window = NoWindow]
    ELSE refreshWidget(c, w.widget)

\* Component.refresh()
refresh(c) ==
    LET w == getWidget(c) IN
    IF ~w.ok THEN [c EXCEPT !.error = w.error]
    ELSE refreshWidget(c, w.widget)

\* Component.bind that refreshes before it stores the new window.
bind_refreshesOldWindow(c, h) == [refresh(c) EXCEPT !.window = h]

\* Component.bind that puts the old window back when the refresh fails.
bind_restoresOnFailure(c, h) ==
    LET r == refresh([c EXCEPT !.window = h]) IN
    IF r.error # NoError THEN [r EXCEPT !.window = c.window] ELSE r

\* Component.bind(window)
bind(c, h) == refresh([c EXCEPT !.window = h])

\* Component.active that stores the toggle itself in isDisabled.
active_notNegated(c, toggle) ==
    LET w == getWidget(c) IN
    IF ~w.ok THEN [c EXCEPT !.error = w.error]
    ELSE refreshWidget([c EXCEPT !.isDisabled[w.widget] = toggle], w.widget)

\* Component.active(toggle)
active(c, toggle) ==
    LET w == getWidget(c) IN
    IF ~w.ok THEN [c EXCEPT !.error = w.error]
    ELSE refreshWidget([c EXCEPT !.isDisabled[w.widget] = ~toggle], w.widget)

COp(name, h, toggle) == [name |-> name, host |-> h, toggle |-> toggle]

ComponentInit ==
    /\ description \in Names
    /\ window = NoWindow
    /\ previous = NoWindow
    /\ hasWidget \in [Hosts -> SUBSET Names]
    /\ isDisabled \in [Hosts \X Names -> BOOLEAN]
    /\ \A h \in Hosts, n \in Names : n \notin hasWidget[h] => ~isDisabled[<<h, n>>]
    /\ cop = COp("new", NoWindow, FALSE)
    /\ error = NoError
    /\ refreshed = <<>>

CCommit(c) ==
    /\ window' = c.window
    /\ isDisabled' = c.isDisabled
    /\ error' = c.error
    /\ refreshed' = c.refreshed
    /\ UNCHANGED <<description, hasWidget>>

Bind(h) ==
    /\ CCommit(bind(CStart, h))
    /\ previous' = window
    /\ cop' = COp("bind", h, FALSE)

Active(toggle) ==
    /\ CCommit(active(CStart, toggle))
    /\ cop' = COp("active", window, toggle)
    /\ UNCHANGED previous

Refresh ==
    /\ CCommit(refresh(CStart))
    /\ cop' = COp("refresh", window, FALSE)
    /\ UNCHANGED previous

\* ---------------------------------------------------------- specifications
\* A component that is constructed and never used.
ComponentIdle ==
    /\ description = "n1"
    /\ window = NoWindow
    /\ previous = NoWindow
    /\ hasWidget = [h \in Hosts |-> {}]
    /\ isDisabled = [w \in Hosts \X Names |-> FALSE]
    /\ cop = COp("new", NoWindow, FALSE)
    /\ error = NoError
    /\ refreshed = <<>>

\* A binder that is never asked to bind anything.
BinderIdle ==
    /\ BinderInit
    /\ kind = [vm \in VMs |-> [k \in Keys |-> "obs"]]
    /\ bindings = <<>>

\* One viewmodel at a time: Binder.apply, observable.set, view input.
Init == BinderInit /\ ComponentIdle

Next ==
    \/ \E vm \in VMs : Apply(vm) /\ UNCHANGED cvars
    \/ \E o \in Props, v \in Vals : Set(o, v) /\ UNCHANGED cvars
    \/ \E f \in Fields, v \in Vals : Invoke(f, v) /\ UNCHANGED cvars

Spec == Init /\ [][Next]_vars

\* Several viewmodels at once: Binder.applyAll, observable.set, view input.
NextAll ==
    \/ \E vms \in VmLists : ApplyAll(vms) /\ UNCHANGED cvars
    \/ \E o \in Props, v \in Vals : Set(o, v) /\ UNCHANGED cvars
    \/ \E f \in Fields, v \in Vals : Invoke(f, v) /\ UNCHANGED cvars

SpecAll == Init /\ [][NextAll]_vars

\* The Component lifecycle.
InitComponent == BinderIdle /\ ComponentInit

NextComponent ==
    \/ \E h \in Hosts : Bind(h) /\ UNCHANGED bvars
    \/ \E t \in BOOLEAN : Active(t) /\ UNCHANGED bvars
    \/ Refresh /\ UNCHANGED bvars

SpecComponent == InitComponent /\ [][NextComponent]_vars

\* ------------------------------------------------------ auxiliary notions
\* How often setField(f, arg) occurs in a sequence of calls.
CountCalls(cs, f, arg) ==
    Cardinality({i \in 1..Len(cs) : cs[i] = [field |-> f, arg |-> arg]})

\* The calls of a sequence that address field f.
CallsOn(cs, f) == {i \in 1..Len(cs) : cs[i].field = f}

\* The specification without its i-th entry.
Without(bs, i) == [j \in 1..(Len(bs) - 1) |-> IF j < i THEN bs[j] ELSE bs[j + 1]]

\* The entries of the specification whose key is an Observable on vm.
Resolves(vm, b) == kind[vm][b.key] = "obs"
Resolved(vm, bs) == SelectSeq(bs, LAMBDA b : Resolves(vm, b))

\* The view field the to-target part of an entry pushes to, if it has one.
PushField(b) == IF b.shape = "ToTarget" THEN b.target
                ELSE IF b.shape = "TwoWay" THEN b.bind ELSE None

\* Some entry after the i-th one, resolved on vm, writes view field f too.
LaterWrite(vm, i, f) ==
    \E j \in (i + 1)..Len(bindings) :
        /\ Resolves(vm, bindings[j])
        /\ f \in {PushField(bindings[j]), bindings[j].update}

\* The step just taken is Binder.apply on vm.
ApplyStep(vm) == op'.name = "apply" /\ op'.vms = <<vm>>

\* The state is the result of a set(v), direct or through a handler.
IsSet == op.name \in {"set", "invoke"}

\* -------------------------------------------------------------- properties
\* C1: a to-target binding of key K to field F (string descriptor) on an
\* Observable makes Binder.apply call setField(F, current value) exactly once
\* (the apply makes exactly one call more than it makes without the entry, and
\* that call is setField(F, current value)); afterwards every set(v) on that
\* observable causes one setField(F, v) per time the binding was applied
\* (exactly one after one apply) and nothing else, and a set on an observable
\* whose binding does not push to F causes no setField on F.
C1_ApplyPushesOnce ==
    \A vm \in VMs : \A i \in 1..Len(bindings) :
        (ApplyStep(vm) /\ bindings[i].shape = "ToTarget" /\ Resolves(vm, bindings[i]))
        => LET o    == <<vm, bindings[i].key>>
               F    == bindings[i].target
               cur  == [field |-> F, arg |-> Val(value[o])]
               rest == apply(Start, vm, Without(bindings, i)).calls
           IN  /\ Len(calls') = Len(rest) + 1
               /\ CountCalls(calls', F, Val(value[o])) = CountCalls(rest, F, Val(value[o])) + 1
               /\ \E n \in 1..Len(calls') :
                      /\ calls'[n] = cur
                      /\ \A m \in 1..Len(rest) : rest[m] = calls'[IF m < n THEN m ELSE m + 1]
               /\ subs'[o] = Append(subs[o], F)

C1_SetPushes ==
    IsSet =>
        LET o == op.obs IN
        /\ \A i \in 1..Len(bindings) :
              (bindings[i].key = o[2] /\ bindings[i].shape = "ToTarget")
              => /\ CountCalls(calls, bindings[i].target, Val(op.v)) = applied[o[1]]
                 /\ Len(calls) = applied[o[1]]
        /\ \A F \in Fields :
              (\A i \in 1..Len(bindings) :
                   bindings[i].key = o[2] => PushField(bindings[i]) # F)
              => CallsOn(calls, F) = {}

C1_ToTarget == [][C1_ApplyPushesOnce]_vars /\ []C1_SetPushes

C1_Witness ==
    /\ op.name = "set" /\ op.v = 1
    /\ applied[op.obs[1]] = 1
    /\ \E i \in 1..Len(bindings) :
          /\ bindings[i] = ToTarget(op.obs[2], "a")
          /\ calls = <<[field |-> "a", arg |-> Val(1)]>>
          /\ fields["a"] = Val(1)

\* C2: a to-source binding of key K with descriptor { update: U } on an
\* Observable makes Binder.apply install in field U the handler of that
\* observable (U holds it when apply returns unless a later entry of the same
\* specification writes U as well); the binding's only setField call during
\* apply is that installation, so it pushes no value to any field, and it adds
\* no subscriber to the observable; invoking the handler held in a field with
\* v leaves the handler's observable with get() = v.
C2_ApplyInstalls ==
    \A vm \in VMs : \A i \in 1..Len(bindings) :
        (ApplyStep(vm) /\ bindings[i].shape = "ToSource" /\ Resolves(vm, bindings[i]))
        => LET o    == <<vm, bindings[i].key>>
               U    == bindings[i].update
               rest == apply(Start, vm, Without(bindings, i)).calls
           IN  /\ ~LaterWrite(vm, i, U) => fields'[U] = Fn(o)
               /\ Len(calls') = Len(rest) + 1
               /\ CountCalls(calls', U, Fn(o)) = 1
               /\ \A f \in Fields, x \in Vals :
                      CountCalls(calls', f, Val(x)) = CountCalls(rest, f, Val(x))
               /\ subs'[o] = subs[o]
               /\ value' = value

C2_InvokeStores ==
    op'.name = "invoke"
    => /\ fields[op'.field] = Fn(op'.obs)
       /\ value'[op'.obs] = op'.v
       /\ \A o \in Props \ {op'.obs} : value'[o] = value[o]

C2_ToSource == [][C2_ApplyInstalls /\ C2_InvokeStores]_vars

C2_Witness ==
    /\ op.name = "invoke" /\ op.v = 1 /\ op.field = "b"
    /\ value[op.obs] = 1
    /\ subs[op.obs] = <<>>
    /\ calls = <<>>
    /\ \E i \in 1..Len(bindings) : bindings[i] = ToSource(op.obs[2], "b")

\* C3: a two-way binding { bind: a, update: b } with a # b on an Observable
\* makes Binder.apply push the observable's current value to a and install
\* the observable's handler in b; every later set(v), direct or through the
\* handler, pushes v to a once per application of the binding and leaves the
\* observable with get() = v; a push never invokes a handler: the only
\* Observable.set an operation makes is the one that was asked for, and
\* Binder.apply makes none.
C3_ApplyTwoWay ==
    \A vm \in VMs : \A i \in 1..Len(bindings) :
        (/\ ApplyStep(vm) 
         /\ bindings[i].shape = "TwoWay"
         /\ bindings[i].bind # bindings[i].update
         /\ Resolves(vm, bindings[i]))
        => LET o    == <<vm, bindings[i].key>>
               a    == bindings[i].bind
               b    == bindings[i].update
               rest == apply(Start, vm, Without(bindings, i)).calls
           IN  /\ Len(calls') = Len(rest) + 2
               /\ CountCalls(calls', a, Val(value[o])) = CountCalls(rest, a, Val(value[o])) + 1
               /\ CountCalls(calls', b, Fn(o)) = 1
               /\ ~LaterWrite(vm, i, a) => fields'[a] = Val(value[o])
               /\ ~LaterWrite(vm, i, b) => fields'[b] = Fn(o)
               /\ subs'[o] = Append(subs[o], a)
               /\ setCalls' = <<>>

C3_SetTwoWay ==
    \A i \in 1..Len(bindings) :
        (/\ op'.name \in {"set", "invoke"}
         /\ bindings[i].key = op'.obs[2]
         /\ bindings[i].shape = "TwoWay"
         /\ bindings[i].bind # bindings[i].update)
        => LET o == op'.obs
               a == bindings[i].bind
               b == bindings[i].update
           IN  /\ value'[o] = op'.v
               /\ CountCalls(calls', a, Val(op'.v)) = applied[o[1]]
               /\ Len(calls') = applied[o[1]]
               /\ setCalls' = <<[obs |-> o, v |-> op'.v]>>
               /\ fields'[b] = fields[b]
               /\ applied[o[1]] > 0 => fields'[a] = Val(op'.v)

C3_TwoWay == [][C3_ApplyTwoWay /\ C3_SetTwoWay]_vars

C3_Witness ==
    /\ op.name = "set" /\ op.v = 1
    /\ bindings = <<TwoWay(op.obs[2], "a", "b")>>
    /\ applied[op.obs[1]] = 1
    /\ calls = <<[field |-> "a", arg |-> Val(1)]>>
    /\ fields["a"] = Val(1)
    /\ fields["b"] = Fn(op.obs)
    /\ setCalls = <<[obs |-> op.obs, v |-> 1]>>

\* The state results from the view invoking the handler held in the update
\* field of the i-th entry, a two-way binding with distinct fields.
HandlerInvoked(i) ==
    /\ op.name = "invoke"
    /\ bindings[i].shape = "TwoWay"
    /\ bindings[i].bind # bindings[i].update
    /\ bindings[i].key = op.obs[2]
    /\ bindings[i].update = op.field

\* C4 as stated: invoking the handler held in field b of a two-way binding
\* { bind: a, update: b } causes no setField call on field a.
C4_Original ==
    \A i \in 1..Len(bindings) :
        HandlerInvoked(i) => CallsOn(calls, bindings[i].bind) = {}

\* C4 as amended: invoking the handler held in field b with v calls
\* observable.set(v), which notifies the bind subscriber: it causes one
\* setField(a, v) per application of the binding (exactly one after a single
\* apply) and no other setField call, so a holds v and b keeps its handler.
C4_HandlerPushesBind ==
    \A i \in 1..Len(bindings) :
        HandlerInvoked(i)
        => LET vm == op.obs[1]
               a  == bindings[i].bind
           IN  /\ applied[vm] >= 1
               /\ Len(calls) = applied[vm]
               /\ \A n \in 1..Len(calls) : calls[n] = [field |-> a, arg |-> Val(op.v)]
               /\ fields[a] = Val(op.v)
               /\ fields[op.field] = Fn(op.obs)
               /\ value[op.obs] = op.v

C4_Witness ==
    /\ HandlerInvoked(1)
    /\ op.v = 1
    /\ applied[op.obs[1]] = 1
    /\ calls = <<[field |-> bindings[1].bind, arg |-> Val(1)]>>

\* C5: for a two-way binding { bind: a, update: b } with any field names,
\* a = b included, the field named by update holds the observable's handler
\* once Binder.apply returns (no later entry of the specification writing it).
C5_UpdateHoldsHandler ==
    \A i \in 1..Len(bindings) :
        (/\ op.name = "apply"
         /\ bindings[i].shape = "TwoWay"
         /\ Resolves(op.vms[1], bindings[i])
         /\ ~LaterWrite(op.vms[1], i, bindings[i].update))
        => fields[bindings[i].update] = Fn(<<op.vms[1], bindings[i].key>>)

\* The keys of a sequence of entries, in order.
KeysOf(bs) == [j \in 1..Len(bs) |-> bs[j].key]

\* C6: Binder.apply always completes; a key whose viewmodel property is
\* absent or not an Observable gets exactly one warning, no setField call and
\* no subscriber, and the other keys are bound exactly as if the failing keys
\* were not in the specification (same calls, same fields, same subscribers).
C6_FailingKeysSkipped ==
    \A vm \in VMs :
        ApplyStep(vm)
        => LET good == apply(Start, vm, Resolved(vm, bindings))
               bad  == SelectSeq(bindings, LAMBDA b : ~Resolves(vm, b))
           IN  /\ warnings' = KeysOf(bad)
               /\ good.warnings = <<>>
               /\ calls' = good.calls
               /\ fields' = good.fields
               /\ subs' = good.subs
               /\ value' = value
               /\ \A j \in 1..Len(bad) : subs'[<<vm, bad[j].key>>] = <<>>
               /\ applied'[vm] = applied[vm] + 1

C6_UnresolvableKey == [][C6_FailingKeysSkipped]_vars

C6_Witness ==
    /\ op.name = "apply" /\ op.vms = <<"vm1">>
    /\ Len(bindings) = 2
    /\ bindings[1].key = "k2" /\ kind["vm1"]["k2"] = "plain"
    /\ warnings = <<"k2">>
    /\ Len(calls) = 2
    /\ subs[<<"vm1", "k1">>] # <<>>

\* C7: Binder.applyAll emits, per key of the specification, no warning when
\* at least one viewmodel of the list holds an Observable under the key
\* (wherever it is in the list) and exactly one warning when none does, the
\* empty list included.
C7_WarnOncePerUnresolvedKey ==
    op.name = "applyAll"
    => warnings = KeysOf(SelectSeq(bindings,
                     LAMBDA b : \A j \in 1..Len(op.vms) : ~Resolves(op.vms[j], b)))

C7_Witness ==
    /\ op.name = "applyAll" /\ op.vms = <<"vm2", "vm1">>
    /\ kind["vm1"]["k2"] = "absent"
    /\ Len(bindings) = 2
    /\ warnings = <<>>
    /\ calls # <<>>

\* Some entry after the i-th one writes view field f on some viewmodel of vms.
LaterWriteAny(vms, i, f) == \E j \in 1..Len(vms) : LaterWrite(vms[j], i, f)

\* C8: after Binder.applyAll every viewmodel that resolved key K has its own
\* working binding: a set on its observable pushes to the bound field, and
\* invoking the handler held in the update field with v leaves that
\* viewmodel's observable with get() = v.
C8_EachResolutionWorks ==
    \A i \in 1..Len(bindings) : \A j \in 1..Len(op.vms) :
        (/\ op.name = "applyAll"
         /\ Resolves(op.vms[j], bindings[i]))
        => LET b == bindings[i]
               o == <<op.vms[j], b.key>>
           IN  /\ PushField(b) # None
                  => \A v \in Vals :
                         CountCalls(set(Start, o, v).calls, PushField(b), Val(v)) >= 1
               /\ (/\ b.update # None
                   /\ b.update # PushField(b)
                   /\ ~LaterWriteAny(op.vms, i, b.update))
                  => /\ fields[b.update].kind = "fn"
                     /\ \A v \in Vals :
                            get(set(Start, fields[b.update].obs, v), o) = v

\* The widget the component's description names on window h.
Described(h) == <<h, description>>

\* C9: Component.active(toggle) with no window bound throws, changes no
\* isDisabled flag and never calls refreshWidget; with a window bound (that
\* has a widget of the description's name) it sets that widget's isDisabled to
\* the negation of toggle, touches no other widget, and calls refreshWidget
\* exactly once, with that widget. (On a window without such a widget
\* findWidget fails and nothing changes.)
C9_ActiveStep ==
    cop'.name = "active"
    => /\ window' = window
       /\ IF window = NoWindow
          THEN /\ error' = "The window is gone."
               /\ isDisabled' = isDisabled
               /\ refreshed' = <<>>
          ELSE IF description \in hasWidget[window]
          THEN /\ error' = NoError
               /\ isDisabled' = [isDisabled EXCEPT ![Described(window)] = ~cop'.toggle]
               /\ refreshed' = <<Described(window)>>
          ELSE /\ error' # NoError
               /\ isDisabled' = isDisabled
               /\ refreshed' = <<>>

C9_Active == [][C9_ActiveStep]_vars

C9_Witness ==
    /\ cop.name = "active" /\ cop.toggle = TRUE
    /\ window = "w1"
    /\ error = NoError
    /\ isDisabled[Described("w1")] = FALSE
    /\ refreshed = <<Described("w1")>>

\* C10: Component.bind(host) stores the host and then refreshes once against
\* it: refreshWidget is called exactly once, with the widget of the
\* description's name on the new host (when findWidget fails there, not at
\* all), never with a widget of another window; after a bind every active and
\* refresh resolves the widget on the window bound last and neither refreshes
\* nor changes a widget of any other window.
C10_BindStep ==
    cop'.name = "bind"
    => /\ window' = cop'.host
       /\ previous' = window
       /\ isDisabled' = isDisabled
       /\ IF description \in hasWidget[cop'.host]
          THEN error' = NoError /\ refreshed' = <<Described(cop'.host)>>
          ELSE error' # NoError /\ refreshed' = <<>>

C10_LaterStep ==
    cop'.name \in {"active", "refresh"}
    => /\ window' = window
       /\ cop'.host = window
       /\ \A n \in 1..Len(refreshed') : refreshed'[n] = Described(window)
       /\ Len(refreshed') <= 1
       /\ \A w \in Hosts \X Names :
              w # Described(window) => isDisabled'[w] = isDisabled[w]

C10_Bind == [][C10_BindStep /\ C10_LaterStep]_vars

C10_Witness ==
    /\ cop.name = "active" /\ cop.toggle = FALSE
    /\ previous = "w1" /\ window = "w2"
    /\ description \in hasWidget["w1"]
    /\ refreshed = <<Described("w2")>>
    /\ isDisabled[Described("w2")] = TRUE
    /\ isDisabled[Described("w1")] = FALSE

\* C11: the Component is Unbound (no window) after construction and Bound
\* (some window) otherwise; only bind changes the window reference, no bind,
\* active or refresh ever takes a Bound component back to Unbound, and while
\* Unbound every active and refresh throws at getWidget and changes nothing.
C11_TwoStates ==
    /\ window \in Hosts \cup {NoWindow}
    /\ cop.name = "new" => window = NoWindow

C11_Step ==
    /\ window' # window => cop'.name = "bind"
    /\ cop'.name = "bind" => window' \in Hosts
    /\ window # NoWindow => window' # NoWindow
    /\ (window = NoWindow /\ cop'.name \in {"active", "refresh"})
       => /\ error' = "The window is gone."
          /\ window' = NoWindow
          /\ isDisabled' = isDisabled
          /\ refreshed' = <<>>
          /\ description' = description

C11_Lifecycle == []C11_TwoStates /\ [][C11_Step]_vars

C11_Witness ==
    /\ cop.name = "refresh"
    /\ window = "w1" /\ previous = NoWindow
    /\ description \notin hasWidget["w1"]
    /\ error = "no such widget"

\* C17: Component.bind is not atomic: when bind(host) fails because the host
\* has no widget of the description's name (findWidget fails in the refresh),
\* the host is already stored, so the component is Bound to it afterwards,
\* refreshWidget was not called, no flag changed, and the window that was
\* bound before is not put back.
C17_FailedBindStep ==
    (cop'.name = "bind" /\ description \notin hasWidget[cop'.host])
    => /\ error' = "no such widget"
       /\ window' = cop'.host
       /\ previous' = window
       /\ refreshed' = <<>>
       /\ isDisabled' = isDisabled

C17_BindNotAtomic == [][C17_FailedBindStep]_vars

C17_Witness ==
    /\ cop.name = "bind" /\ cop.host = "w2"
    /\ error = "no such widget"
    /\ previous = "w1" /\ window = "w2"
    /\ description \in hasWidget["w1"]
    /\ refreshed = <<>>

\* n copies of x.
Copies(n, x) == [k \in 1..n |-> x]

\* The subscribers the bindings should have given observable o by now: one
\* per application of an entry with a to-target part to o's viewmodel.
Established(o) ==
    IF /\ kind[o[1]][o[2]] = "obs"
       /\ \E i \in 1..Len(bindings) :
              bindings[i].key = o[2] /\ PushField(bindings[i]) # None
    THEN LET i == CHOOSE i \in 1..Len(bindings) :
                      bindings[i].key = o[2] /\ PushField(bindings[i]) # None
         IN  Copies(applied[o[1]], PushField(bindings[i]))
    ELSE <<>>

\* C12: set(v) on any observable stores v, whatever the value stored before
\* (v itself included), and then invokes every subscriber registered before
\* the call exactly once with v, in registration order, and calls nothing
\* else; bindings subscribe in the order they are established (a new
\* subscriber goes to the end of the list and none is removed or moved), so
\* the pushes of one set(v) come in the order the bindings were established.
C12_SetStep ==
    op'.name \in {"set", "invoke"}
    => LET o == op'.obs
           v == op'.v
           n == Len(subs[o])
       IN  /\ value'[o] = v
           /\ subs' = subs
           /\ notified' = [k \in 1..n |-> k]
           /\ calls' = [k \in 1..n |-> [field |-> subs[o][k], arg |-> Val(v)]]
           /\ setCalls' = <<[obs |-> o, v |-> v]>>

C12_SubscribeStep ==
    \A o \in Props :
        /\ Len(subs'[o]) >= Len(subs[o])
        /\ SubSeq(subs'[o], 1, Len(subs[o])) = subs[o]

C12_Subscribed == \A o \in Props : subs[o] = Established(o)

Reverse(bs) == [j \in 1..Len(bs) |-> bs[Len(bs) + 1 - j]]

\* The entries of the specification that write view field f when applied to vm.
Writers(vm, f) ==
    {i \in 1..Len(bindings) :
        Resolves(vm, bindings[i]) /\ f \in {PushField(bindings[i]), bindings[i].update}}

\* How often x occurs in a sequence.
Count(sq, x) == Cardinality({n \in 1..Len(sq) : sq[n] = x})

\* Two sequences with the same elements, each as often.
SameBag(s1, s2) ==
    /\ Len(s1) = Len(s2)
    /\ \A n \in 1..Len(s1) : Count(s1, s1[n]) = Count(s2, s1[n])

\* C13 as stated: Binder.apply leaves the same value or handler in every
\* context field and the same subscribers on every observable whatever the
\* order of the keys of the specification.
C13_OriginalStep ==
    \A vm \in VMs :
        ApplyStep(vm)
        => LET r == apply(Start, vm, Reverse(bindings))
           IN  fields' = r.fields /\ subs' = r.subs

C13_Original == [][C13_OriginalStep]_vars

\* C13 as amended: whatever the order of the keys, Binder.apply leaves the
\* same subscribers on every observable, the same values in the observables,
\* the same setField calls and warnings up to their order, and the same value
\* or handler in every context field that at most one key of the
\* specification writes; a field that several keys write holds what the last
\* of them in key order wrote.
C13_AmendedStep ==
    \A vm \in VMs :
        ApplyStep(vm)
        => LET r == apply(Start, vm, Reverse(bindings))
           IN  /\ subs' = r.subs
               /\ value' = r.value
               /\ SameBag(calls', r.calls)
               /\ SameBag(warnings', r.warnings)
               /\ \A f \in Fields :
                      Cardinality(Writers(vm, f)) <= 1 => fields'[f] = r.fields[f]
               /\ \A f \in Fields :
                      Writers(vm, f) # {}
                      => LET last == CHOOSE i \in Writers(vm, f) :
                                         \A j \in Writers(vm, f) : j <= i
                             b    == bindings[last]
                         IN  fields'[f] = IF PushField(b) = f
                                          THEN Val(value[<<vm, b.key>>])
                                          ELSE Fn(<<vm, b.key>>)

C13_KeyOrder == [][C13_AmendedStep]_vars

C13_Witness ==
    /\ op.name = "apply" /\ op.vms = <<"vm2">>
    /\ bindings = <<ToTarget("k2", "b"), ToSource("k1", "a")>>
    /\ value[<<"vm2", "k2">>] = 1
    /\ fields["b"] = Val(1)
    /\ fields["a"] = Fn(<<"vm2", "k1">>)
    /\ subs[<<"vm2", "k2">>] = <<"b">>

\* The i-th entry is a to-target binding and the only entry of the
\* specification that names its field.
SoleToTarget(i) ==
    /\ bindings[i].shape = "ToTarget"
    /\ \A j \in 1..Len(bindings) :
          j # i => bindings[i].target \notin {PushField(bindings[j]), bindings[j].update}

\* C14: Binder.applyAll binds a key to the viewmodels in list order: for a
\* to-target key K bound to field F (no other key naming F) that resolves on
\* viewmodels of the list, F holds the current value of the last resolving
\* viewmodel's observable when applyAll returns; afterwards a set on any of
\* the bound observables leaves its value in F and no other set changes F, so
\* F holds the value of the one that was set most recently.
C14_AfterApplyAll ==
    \A i \in 1..Len(bindings) :
        (op.name = "applyAll" /\ SoleToTarget(i))
        => LET res == {j \in 1..Len(op.vms) : Resolves(op.vms[j], bindings[i])}
           IN  res # {}
               => LET last == CHOOSE j \in res : \A k \in res : k <= j
                  IN  fields[bindings[i].target] = Val(value[<<op.vms[last], bindings[i].key>>])

C14_SetStep ==
    \A i \in 1..Len(bindings) :
        (op'.name \in {"set", "invoke"} /\ SoleToTarget(i))
        => LET F == bindings[i].target
           IN  IF op'.obs[2] = bindings[i].key /\ applied[op'.obs[1]] > 0
               THEN fields'[F] = Val(op'.v) /\ value'[op'.obs] = op'.v
               ELSE fields'[F] = fields[F]

C14_LastResolvingWins == []C14_AfterApplyAll /\ [][C14_SetStep]_vars

C14_Witness ==
    /\ op.name = "applyAll" /\ op.vms = <<"vm2", "vm1">>
    /\ bindings = <<ToTarget("k1", "a")>>
    /\ value[<<"vm2", "k1">>] = 1
    /\ value[<<"vm1", "k1">>] = 0
    /\ calls = <<[field |-> "a", arg |-> Val(1)], [field |-> "a", arg |-> Val(0)]>>
    /\ fields["a"] = Val(0)

\* View field F is the target of exactly one binding, that of the i-th entry
\* to viewmodel vm: the entry pushes to F, no entry uses F as its update
\* field, no other entry pushes to F, and the specification was applied to
\* vm and to no other viewmodel that resolves the entry's key.
OnlyBinding(i, vm) ==
    /\ PushField(bindings[i]) # None
    /\ \A j \in 1..Len(bindings) :
          /\ bindings[j].update # PushField(bindings[i])
          /\ j # i => PushField(bindings[j]) # PushField(bindings[i])
    /\ Resolves(vm, bindings[i])
    /\ applied[vm] >= 1
    /\ \A other \in VMs \ {vm} : applied[other] = 0 \/ ~Resolves(other, bindings[i])

\* C15: for a view field F that is the target of exactly one to-target or
\* two-way binding and is no update field, after apply and after every set
\* and every invocation of an update handler (whenever no call is running),
\* F holds the value the bound observable's get() returns.
C15_Synchronised ==
    \A i \in 1..Len(bindings) : \A vm \in VMs :
        OnlyBinding(i, vm)
        => fields[PushField(bindings[i])] = Val(get(Start, <<vm, bindings[i].key>>))

C15_Witness ==
    /\ op.name = "invoke" /\ op.v = 1 /\ op.field = "b"
    /\ bindings = <<TwoWay("k1", "a", "b")>>
    /\ OnlyBinding(1, op.obs[1])
    /\ value[op.obs] = 1
    /\ fields["a"] = Val(1)

\* The number of subscribers one application of the specification to vm adds
\* to observable o: one if o is an Observable of vm whose key has an entry
\* with a to-target part (to-target or two-way), none otherwise.
Adds(vm, o) ==
    IF /\ o[1] = vm
       /\ kind[vm][o[2]] = "obs"
       /\ \E i \in 1..Len(bindings) :
              bindings[i].key = o[2] /\ bindings[i].shape \in {"ToTarget", "TwoWay"}
    THEN 1 ELSE 0

\* C16: every resolution of a to-target or two-way binding adds exactly one
\* subscriber to the resolved observable, a to-source binding adds none, and
\* no operation removes a subscriber; so after the bindings were applied n
\* times to a viewmodel, one set(v) on a to-target observable of it causes n
\* setField pushes of v to its field.
C16_ApplyStep ==
    \A vm \in VMs :
        ApplyStep(vm)
        => \A o \in Props : Len(subs'[o]) = Len(subs[o]) + Adds(vm, o)

C16_NeverRemoved ==
    \A o \in Props : \A n \in 1..Len(subs[o]) :
        n <= Len(subs'[o]) /\ subs'[o][n] = subs[o][n]

C16_PushesPerSet ==
    \A i \in 1..Len(bindings) :
        (/\ op.name = "set"
         /\ bindings[i].key = op.obs[2]
         /\ bindings[i].shape = "ToTarget")
        => calls = Copies(applied[op.obs[1]],
                          [field |-> bindings[i].target, arg |-> Val(op.v)])

C16_Accumulate == []C16_PushesPerSet /\ [][C16_ApplyStep /\ C16_NeverRemoved]_vars

C16_Witness ==
    /\ op.name = "set" /\ op.v = 1
    /\ bindings = <<ToTarget(op.obs[2], "a")>>
    /\ applied[op.obs[1]] = 2
    /\ subs[op.obs] = <<"a", "a">>
    /\ calls = <<[field |-> "a", arg |-> Val(1)], [field |-> "a", arg |-> Val(1)]>>
====
